---- MODULE Spec2Model ----
(***************************************************************************)
(* Model of the Remediation Orchestration Engine                           *)
(* (ParallelRemediationManager and the parts of AIRemediationAgent it      *)
(* relies on).                                                             *)
(*                                                                         *)
(*   Spec         executeJobs: the coordinator loop, the executeJob        *)
(*                promises and the worker calls behind them.               *)
(*   SpecFair     the same on smaller batches, with the scheduling of the  *)
(*                event loop, for the properties of whole runs.            *)
(*   SpecResolve  resolveConflicts followed by validateResults on the      *)
(*                flattened remediations of a list of job results.         *)
(*   SpecProcess  processRemediations from the issue list to the returned  *)
(*                result: prepareIssues, createJobs, executeJobs,          *)
(*                resolveConflicts, validateResults.                       *)
(*   SpecOrder    resolveDependencies on batches with cycles and jobs that *)
(*                depend on their own type.                                *)
(*   SpecPriority calculatePriority on one issue.                          *)
(*   SpecCancel   executeJobs with a call of cancelProcessing.             *)
(*   SpecAgent    AIRemediationAgent.processIssueType: the retry loop, the  *)
(*                model call and the parsing of its response.              *)
(*   SpecLimiter  the rate limiter of createRateLimiter over clock minutes.*)
(*   SpecApply    applyRemediations on a source and a remediation list.    *)
(*   SpecResolveApply  SpecResolve followed by applyRemediations, as in    *)
(*                POST /api/remediate.                                     *)
(***************************************************************************)
EXTENDS Integers, Sequences, FiniteSets, TLC

(***************************************************************************)
(* Bounds of the model.                                                    *)
(***************************************************************************)
MaxJobs == 3            \* largest batch handed to executeJobs
MaxFairJobs == 2        \* largest batch of the runs that are followed to their end (SpecFair)
MaxConcurrencyBound == 2 \* config.maxConcurrency ranges over 1..MaxConcurrencyBound
RetryAttempts == 1      \* config.retryAttempts (0 is replaced by 2 in the constructor)
MaxOrphans == 2         \* abandoned worker calls are counted up to MaxOrphans
MaxResults == 2         \* largest list of job results handed to resolveConflicts
MaxIssues == 2          \* longest issue list handed to processRemediations
MaxAffectedElements == 6 \* issue.affectedElements ranges over 0..MaxAffectedElements
MaxRetries == 2         \* config.retries of the agent ranges over 1..MaxRetries
LimiterMaxRequests == 2 \* maxRequests of the rate limiter in SpecLimiter (60 in the source)
MaxApplied == 2         \* longest remediation list handed to applyRemediations

(***************************************************************************)
(* Generic sequence helpers.                                               *)
(***************************************************************************)
Range(s) == {s[i] : i \in DOMAIN s}

Remove(s, x) == SelectSeq(s, LAMBDA y : y # x)

RECURSIVE SumOver(_, _)
SumOver(S, f) ==
  IF S = {} THEN 0
  ELSE LET x == CHOOSE y \in S : TRUE IN f[x] + SumOver(S \ {x}, f)

(***************************************************************************)
(* Job batches.  A job is identified by its index i (id "job-<i-1>").      *)
(* JobShapes lists the <<type, dependencies, number of issues>> triples a  *)
(* job of the batch may have: independent jobs, a dependent job, a pair    *)
(* that forms a cycle, a job with two dependencies; a dependency names a   *)
(* key that no job has whenever the batch holds no job of that type.       *)
(***************************************************************************)
JobShapes ==
  { <<"3.1.1", <<>>, 2>>,
    <<"1.1.1", <<"3.1.1">>, 1>>,
    <<"3.1.1", <<"1.1.1">>, 1>>,
    <<"4.1.2", <<"3.1.1", "1.1.1">>, 2>> }

VARIABLES
  jobs,            \* the jobs array: [type, issues, dependencies, status, attempts, maxAttempts]
  maxConcurrency,  \* this.config.maxConcurrency
  jobQueue,        \* executeJobs: const jobQueue
  processing,      \* executeJobs: const processing (Map job.id -> promise), keys in insertion order
  promise,         \* state of the executeJob promise held in processing for each job
  orphaned,        \* worker calls still running although their executeJob promise was rejected by the timeout
  results,         \* executeJobs: const results
  completedCount,  \* executeJobs: let completedCount
  statistics,      \* this.statistics: [completedJobs, failedJobs]
  dispatched,      \* number of executeJob calls made for each job
  pc               \* position of the coordinator inside executeJobs

schedVars == <<jobs, maxConcurrency, jobQueue, processing, promise, orphaned,
               results, completedCount, statistics, dispatched, pc>>

VARIABLES
  issues,          \* processRemediations: the issues argument
  options,         \* processRemediations: options [groupByType, prioritize]
  jobResults,      \* resolveConflicts: the results argument (what executeJobs returned)
  strategy,        \* resolveConflicts: the strategy argument (options.conflictResolution)
  resolved,        \* processRemediations: resolvedResults
  rpc              \* position inside processRemediations outside executeJobs

resolveVars == <<issues, options, jobResults, strategy, resolved, rpc>>

VARIABLES
  cancelled,       \* cancelProcessing: the 'processing-cancelled' event was emitted
  issueArg,        \* calculatePriority: the issue argument
  priorityOut,     \* calculatePriority: the value returned (-1 before the call)
  retries,         \* AIRemediationAgent: config.retries
  attempt,         \* processIssueType: let attempt
  requests,        \* createRateLimiter: requests counted in the current window
  llmCalls,        \* processIssueType: calls of callLLMAPI made so far
  apc,             \* position inside processIssueType and the executeJob around it
  llmResponse,     \* processIssueType: the response of the last callLLMAPI
  agentResult,     \* executeJob: the job result it returned
  now,             \* createRateLimiter: Date.now()
  limiter,         \* createRateLimiter: const requests (Map minute start -> count)
  admitted,        \* number of canMakeRequest calls answered true at each instant
  applySource,     \* applyRemediations: the sourceHtml argument
  applyInput,      \* applyRemediations: the remediations argument
  application      \* applyRemediations: the object returned

priorityVars == <<issueArg, priorityOut>>

agentVars == <<retries, attempt, requests, llmCalls, apc, llmResponse, agentResult>>

limiterVars == <<now, limiter, admitted>>

applyVars == <<applySource, applyInput, application>>

otherVars == <<cancelled, priorityVars, agentVars, limiterVars, applyVars>>

vars == <<schedVars, resolveVars, otherVars>>

JobIds == DOMAIN jobs

(***************************************************************************)
(* Conflict resolution and validation (SpecResolve).                       *)
(*                                                                         *)
(* A line of code is a sequence of tokens; " " is white space and the      *)
(* tokens of AttrTokens are the ones that contain the character '='.       *)
(* Confidence is counted in sixtieths (0.5 is 30): the values used are     *)
(* multiples of 6, so the averages mergeRemediations takes are exact.      *)
(***************************************************************************)
AttrTokens == {"lang=", "alt=", "role="}

\* sourceHtml.split('\n')
SourceLines == << <<"img">>, <<" ", "p">> >>

\* lines[lineNum - 1] of a JavaScript array: undefined outside the array.
Undefined == <<"undefined">>

LineAt(lines, lineNum) ==
  IF lineNum \in DOMAIN lines THEN lines[lineNum] ELSE Undefined

\* String.prototype.includes('=')
IncludesEq(code) == \E i \in DOMAIN code : code[i] \in AttrTokens

\* String.prototype.trim
RECURSIVE TrimLeft(_)
TrimLeft(code) ==
  IF code # <<>> /\ Head(code) = " " THEN TrimLeft(Tail(code)) ELSE code

RECURSIVE TrimRight(_)
TrimRight(code) ==
  IF code # <<>> /\ code[Len(code)] = " "
  THEN TrimRight(SubSeq(code, 1, Len(code) - 1))
  ELSE code

Trim(code) == TrimRight(TrimLeft(code))

\* Array.prototype.sort with a comparator that subtracts integer keys:
\* ascending in keys[i], equal keys keep their order (the sort is stable).
SortRank(keys, i) ==
  1 + Cardinality({j \in DOMAIN keys : keys[j] < keys[i] \/ (keys[j] = keys[i] /\ j < i)})

StableSort(s, keys) ==
  [p \in DOMAIN s |-> s[CHOOSE i \in DOMAIN s : SortRank(keys, i) = p]]

(***************************************************************************)
(* The entries of a remediation list.  Every entry carries every field;    *)
(* lineNumber 0, the codes <<>> and options <<>> stand for an absent       *)
(* field, validated "unset" for an entry validateResults did not touch.    *)
(***************************************************************************)
Remediation(status, lineNumber, beforeCode, afterCode, confidence, wcagCriterion) ==
  [status |-> status, lineNumber |-> lineNumber, beforeCode |-> beforeCode,
   afterCode |-> afterCode, confidence |-> confidence,
   wcagCriterion |-> wcagCriterion, jobId |-> 0, mergedFrom |-> <<>>,
   options |-> <<>>, originalLine |-> <<>>, validated |-> "unset",
   validationErrors |-> <<>>]

\* parseRemediationResponse / remediateIssues: the entry for an issue whose
\* processing failed.
FailedPlaceholder(type) ==
  Remediation("failed", 0, <<>>, <<>>, 0, type)

(***************************************************************************)
(* resolveByCriteriaPriority                                               *)
(***************************************************************************)
priorityOrder ==
  <<"3.1.1", "2.4.2", "1.3.1", "1.1.1", "3.3.2", "2.1.1", "2.4.4", "1.4.3", "4.1.2">>

\* Array.prototype.indexOf: zero-based, -1 when absent.
IndexOf(arr, x) ==
  IF \E i \in DOMAIN arr : arr[i] = x
  THEN (CHOOSE i \in DOMAIN arr : arr[i] = x /\ \A k \in DOMAIN arr : arr[k] = x => i <= k) - 1
  ELSE -1

\* priorityOrder.indexOf(criterion) || 999
PriorityIndex(criterion) ==
  LET idx == IndexOf(priorityOrder, criterion) IN IF idx = 0 THEN 999 ELSE idx

resolveByCriteriaPriority(remediations) ==
  StableSort(remediations,
             [i \in DOMAIN remediations |-> PriorityIndex(remediations[i].wcagCriterion)])[1]

(***************************************************************************)
(* resolveByConfidence                                                     *)
(***************************************************************************)
\* confidence || 0.5
ConfidenceOrDefault(r) == IF r.confidence = 0 THEN 30 ELSE r.confidence

SortByConfidence(remediations) ==
  StableSort(remediations,
             [i \in DOMAIN remediations |-> 0 - ConfidenceOrDefault(remediations[i])])

resolveByConfidence(remediations) == SortByConfidence(remediations)[1]

(***************************************************************************)
(* mergeRemediations, attemptMerge, hasAttributeConflict, mergeAttributes  *)
(***************************************************************************)
hasAttributeConflict(currentLine, newLine, previousChanges) == FALSE

mergeAttributes(currentLine, newLine) == newLine

attemptMerge(currentLine, remediation, previousChanges) ==
  IF /\ IncludesEq(remediation.afterCode)
     /\ ~hasAttributeConflict(currentLine, remediation.afterCode, previousChanges)
  THEN [success |-> TRUE, result |-> mergeAttributes(currentLine, remediation.afterCode)]
  ELSE IF \A i \in DOMAIN previousChanges : IncludesEq(previousChanges[i].afterCode)
  THEN [success |-> TRUE, result |-> remediation.afterCode]
  ELSE [success |-> FALSE, result |-> currentLine]

\* The for loop of mergeRemediations: [mergedLine, appliedChanges] after
\* the candidates k..Len(sorted) were tried.
RECURSIVE MergeLoop(_, _, _)
MergeLoop(sorted, k, acc) ==
  IF k > Len(sorted) THEN acc
  ELSE LET merged == attemptMerge(acc.mergedLine, sorted[k], acc.appliedChanges)
       IN MergeLoop(sorted, k + 1,
                    IF merged.success
                    THEN [mergedLine |-> merged.result,
                          appliedChanges |-> Append(acc.appliedChanges, sorted[k])]
                    ELSE acc)

RECURSIVE SumConfidence(_)
SumConfidence(rs) ==
  IF rs = <<>> THEN 0 ELSE ConfidenceOrDefault(Head(rs)) + SumConfidence(Tail(rs))

mergeRemediations(remediations, originalLine) ==
  LET sorted == SortByConfidence(remediations)
      out == MergeLoop(sorted, 1, [mergedLine |-> originalLine, appliedChanges |-> <<>>])
      n == Len(out.appliedChanges)
  IN IF n > 0
     THEN [sorted[1] EXCEPT
             !.beforeCode = originalLine,
             !.afterCode = out.mergedLine,
             !.confidence = SumConfidence(out.appliedChanges) \div n,
             !.mergedFrom = [i \in 1..n |-> out.appliedChanges[i].wcagCriterion],
             !.status = "merged"]
     ELSE resolveByConfidence(sorted)

(***************************************************************************)
(* applyConflictResolution                                                 *)
(***************************************************************************)
NeedsReview(conflictingRemediations, originalLine) ==
  [Remediation("needs_review", 0, <<>>, <<>>, 0, "undefined") EXCEPT
     !.options = conflictingRemediations,
     !.originalLine = originalLine]

\* Variant without the manual case: the line is resolved automatically.
applyConflictResolution_noManual(conflictingRemediations, strat, originalLine) ==
  CASE strat = "priority" -> resolveByCriteriaPriority(conflictingRemediations)
    [] strat = "merge" -> mergeRemediations(conflictingRemediations, originalLine)
    [] OTHER -> resolveByConfidence(conflictingRemediations)

applyConflictResolution(conflictingRemediations, strat, originalLine) ==
  CASE strat = "priority" -> resolveByCriteriaPriority(conflictingRemediations)
    [] strat = "merge" -> mergeRemediations(conflictingRemediations, originalLine)
    [] strat = "confidence" -> resolveByConfidence(conflictingRemediations)
    [] strat = "manual" -> NeedsReview(conflictingRemediations, originalLine)
    [] OTHER -> resolveByConfidence(conflictingRemediations)

(***************************************************************************)
(* resolveConflicts                                                        *)
(***************************************************************************)
\* Collect all remediations of the successful job results, tagged with jobId.
RECURSIVE CollectRemediations(_)
CollectRemediations(res) ==
  IF res = <<>> THEN <<>>
  ELSE LET r == Head(res)
           own == IF r.status = "success"
                  THEN [i \in DOMAIN r.remediations |->
                          [r.remediations[i] EXCEPT !.jobId = r.jobId]]
                  ELSE <<>>
       IN own \o CollectRemediations(Tail(res))

SuccessOnly(all) == SelectSeq(all, LAMBDA r : r.status = "success")

\* Keys of the lineGroups Map in insertion order: first occurrence of each line.
RECURSIVE LineKeys(_, _)
LineKeys(rs, seen) ==
  IF rs = <<>> THEN <<>>
  ELSE IF Head(rs).lineNumber \in seen THEN LineKeys(Tail(rs), seen)
  ELSE <<Head(rs).lineNumber>> \o LineKeys(Tail(rs), seen \cup {Head(rs).lineNumber})

LineGroup(all, lineNum) ==
  SelectSeq(SuccessOnly(all), LAMBDA r : r.lineNumber = lineNum)

\* Variant that resolves no conflict: every collected remediation is returned.
resolveConflicts_noResolution(res, lines, strat) == CollectRemediations(res)

resolveConflicts(res, lines, strat) ==
  LET all == CollectRemediations(res)
      keys == LineKeys(SuccessOnly(all), {})
      perLine == [k \in DOMAIN keys |->
                    LET g == LineGroup(all, keys[k])
                    IN IF Len(g) = 1 THEN g[1]
                       ELSE applyConflictResolution(g, strat, LineAt(lines, keys[k]))]
  IN perLine \o SelectSeq(all, LAMBDA r : r.status # "success")

(***************************************************************************)
(* validateResults                                                         *)
(***************************************************************************)
\* changes.forEach: [modifiedLines, errors] after the changes k..Len(changes).
RECURSIVE ApplyChanges(_, _, _)
ApplyChanges(changes, k, acc) ==
  IF k > Len(changes) THEN acc
  ELSE LET change == changes[k]
           lineIndex == change.lineNumber - 1
       IN ApplyChanges(changes, k + 1,
            IF lineIndex < 0 \/ lineIndex >= Len(acc.modifiedLines)
            THEN [acc EXCEPT !.errors = Append(@, <<"out of range", change.lineNumber>>)]
            ELSE IF Trim(acc.modifiedLines[lineIndex + 1]) # Trim(change.beforeCode)
            THEN [acc EXCEPT !.errors = Append(@, <<"content mismatch", change.lineNumber>>)]
            ELSE [acc EXCEPT !.modifiedLines[lineIndex + 1] = change.afterCode])

\* Variant that forgets the per-change errors: only the HTML check counts.
validateResults_dropsChangeErrors(res, lines, jsdomThrows) ==
  [i \in DOMAIN res |->
     IF res[i].status = "success"
     THEN [res[i] EXCEPT
             !.validated = IF jsdomThrows THEN "false" ELSE "true",
             !.validationErrors = IF jsdomThrows
                                  THEN << <<"HTML validation failed", 0>> >>
                                  ELSE <<>>]
     ELSE res[i]]

\* jsdomThrows: new JSDOM(modifiedHtml) (or require('jsdom')) raised.
validateResults(res, lines, jsdomThrows) ==
  LET changes == SelectSeq(res, LAMBDA r : r.status = "success" /\ r.lineNumber # 0)
      sorted == StableSort(changes, [i \in DOMAIN changes |-> 0 - changes[i].lineNumber])
      out == ApplyChanges(sorted, 1, [modifiedLines |-> lines, errors |-> <<>>])
      errors == IF jsdomThrows
                THEN Append(out.errors, <<"HTML validation failed", 0>>)
                ELSE out.errors
  IN [i \in DOMAIN res |->
        IF res[i].status = "success"
        THEN [res[i] EXCEPT
                !.validated = IF Len(errors) = 0 THEN "true" ELSE "false",
                !.validationErrors = errors]
        ELSE res[i]]

(***************************************************************************)
(* The job results resolveConflicts is given.  A successful job result     *)
(* carries the remediations the agent returned for it: a change for one    *)
(* line whose afterCode adds the attribute of its criterion (or replaces   *)
(* the text, for a criterion without attribute) and whose beforeCode       *)
(* either is the source line up to white space or is something else, or    *)
(* the failed placeholder of an issue; a failed job result carries none.   *)
(* The confidence of a change ranges over the whole interval the worker    *)
(* interface allows, 0 included; "9.9.9" is a criterion that is not in     *)
(* priorityOrder.  Changes is the union of three families, so that stale   *)
(* and out-of-range changes meet every kind of fitting change.             *)
(***************************************************************************)
Criteria == {"3.1.1", "1.1.1", "4.1.2", "9.9.9"}

Confidences == {0, 18, 48}

\* Line 3 lies outside SourceLines.
LineNumbers == {1, 2, 3}

AttrOf(criterion) ==
  CASE criterion = "3.1.1" -> <<"lang=">>
    [] criterion = "1.1.1" -> <<"alt=">>
    [] criterion = "4.1.2" -> <<"role=">>
    [] OTHER -> <<>>

BaseOf(lineNum) == Trim(LineAt(SourceLines, lineNum))

AfterCodeFor(lineNum, criterion) ==
  IF AttrOf(criterion) = <<>> THEN <<"text">> ELSE BaseOf(lineNum) \o AttrOf(criterion)

BeforeCodeFor(lineNum, matches) ==
  IF matches THEN BaseOf(lineNum) \o <<" ">> ELSE <<"other">>

Change(l, m, c, conf) ==
  Remediation("success", l, BeforeCodeFor(l, m), AfterCodeFor(l, c), conf, c)

\* Changes to a line of the source whose beforeCode fits it: every
\* criterion with every confidence.
FittingChanges ==
  { Change(l, TRUE, c, conf) :
      <<l, c, conf>> \in (LineNumbers \cap DOMAIN SourceLines) \X Criteria \X Confidences }

\* Changes whose beforeCode is not the source line: one that adds an
\* attribute and one that replaces the text, for each line of the source.
StaleChanges ==
  { Change(l, FALSE, c, 18) :
      <<l, c>> \in (LineNumbers \cap DOMAIN SourceLines) \X {"1.1.1", "9.9.9"} }

\* Changes to a line the source does not have.
OutOfRangeChanges ==
  { Change(l, TRUE, c, 48) :
      <<l, c>> \in (LineNumbers \ DOMAIN SourceLines) \X {"1.1.1", "3.1.1"} }

Changes == FittingChanges \cup StaleChanges \cup OutOfRangeChanges

JobResult(jobId, status, type, remediations) ==
  [jobId |-> jobId, status |-> status, type |-> type, remediations |-> remediations]

JobResultShapes ==
  { <<"success", <<c>> >> : c \in Changes }
    \cup { <<"success", <<FailedPlaceholder("1.1.1")>> >>, <<"failed", <<>> >> }

Strategies == {"merge", "priority", "confidence", "manual"}

(***************************************************************************)
(* The remediations agent.remediateIssues resolves with inside the         *)
(* scheduler runs: the parsed changes of the completion, one change per    *)
(* issue of the job.  The other answers an agent can give (placeholders,   *)
(* stale or out-of-range changes) are the job results of SpecResolve.      *)
(***************************************************************************)
AgentRemediations(job) ==
  [i \in 1..job.issues |-> Change(1, TRUE, "1.1.1", 48)]

(***************************************************************************)
(* createJobs: the fields a fresh job carries; issues is the length of the *)
(* job's issues array.                                                     *)
(***************************************************************************)
createJob(type, dependencies, issueCount) ==
  [type |-> type, issues |-> issueCount, dependencies |-> dependencies,
   status |-> "pending", attempts |-> 0, maxAttempts |-> RetryAttempts + 1]

(***************************************************************************)
(* resolveDependencies: depth-first visit with visiting/visited marks.     *)
(* The state threaded through the visit is [sorted, visited, visiting].    *)
(***************************************************************************)
FindByType(js, depType) ==
  IF \E i \in DOMAIN js : js[i].type = depType
  THEN CHOOSE i \in DOMAIN js : /\ js[i].type = depType
                                /\ \A k \in DOMAIN js : js[k].type = depType => i <= k
  ELSE 0

RECURSIVE visit(_, _, _)
RECURSIVE visitDeps(_, _, _, _)
visit(js, j, st) ==
  IF j \in st.visiting THEN st
  ELSE IF j \in st.visited THEN st
  ELSE LET st1 == [st EXCEPT !.visiting = @ \cup {j}]
           st2 == visitDeps(js, j, 1, st1)
       IN [sorted |-> Append(st2.sorted, j),
           visited |-> st2.visited \cup {j},
           visiting |-> st2.visiting \ {j}]

visitDeps(js, j, k, st) ==
  IF k > Len(js[j].dependencies) THEN st
  ELSE LET depJob == FindByType(js, js[j].dependencies[k])
           st1 == IF depJob # 0 THEN visit(js, depJob, st) ELSE st
       IN visitDeps(js, j, k + 1, st1)

RECURSIVE visitAll(_, _, _)
visitAll(js, i, st) ==
  IF i > Len(js) THEN st
  ELSE visitAll(js, i + 1, IF i \in st.visited THEN st ELSE visit(js, i, st))

\* Variant that starts the visit at the first job only.
resolveDependencies_firstOnly(js) ==
  visit(js, 1, [sorted |-> <<>>, visited |-> {}, visiting |-> {}]).sorted

resolveDependencies(js) ==
  visitAll(js, 1, [sorted |-> <<>>, visited |-> {}, visiting |-> {}]).sorted

(***************************************************************************)
(* dependenciesMet: every dependency type has a successful result.         *)
(***************************************************************************)
dependenciesMet(job, completedResults) ==
  \A k \in DOMAIN job.dependencies :
    \E r \in DOMAIN completedResults :
      /\ completedResults[r].status = "success"
      /\ completedResults[r].type = job.dependencies[k]

(***************************************************************************)
(* Worker calls that were started and have not settled.                    *)
(***************************************************************************)
Outstanding ==
  Cardinality({j \in JobIds : promise[j] = "pending"}) + orphaned

Settled(j) == promise[j] \in {"fulfilled", "rejected"}

\* Promise.race over processing.entries(): the first entry, in insertion
\* order, whose promise is settled.
RaceWinner ==
  LET idx == CHOOSE i \in DOMAIN processing :
               /\ Settled(processing[i])
               /\ \A k \in DOMAIN processing : Settled(processing[k]) => i <= k
  IN processing[idx]

\* Variant of the inner loop test that lets one more job in.
InnerLoopCond_oneMore == Len(processing) <= maxConcurrency /\ Len(jobQueue) > 0

InnerLoopCond == Len(processing) < maxConcurrency /\ Len(jobQueue) > 0

(***************************************************************************)
(* Init: a manager was constructed and executeJobs(jobs) is about to run   *)
(* on a batch of up to maxJobs jobs.                                       *)
(***************************************************************************)
DefaultOptions == [groupByType |-> TRUE, prioritize |-> TRUE]

\* A value for what was not received or returned yet.
None == [kind |-> "none"]

\* No call of calculatePriority.
PriorityIdle ==
  /\ issueArg = [criterion |-> "", type |-> ""]
  /\ priorityOut = -1

\* No call of processIssueType.
AgentIdle ==
  /\ retries = 1
  /\ attempt = 0
  /\ requests = 0
  /\ llmCalls = 0
  /\ apc = "idle"
  /\ llmResponse = None
  /\ agentResult = None

\* A fresh rate limiter that is not used.
LimiterIdle ==
  /\ now = 0
  /\ limiter = <<>>
  /\ admitted = <<>>

\* No call of applyRemediations.
ApplyIdle ==
  /\ applySource = <<>>
  /\ applyInput = <<>>
  /\ application = None

\* No cancellation and none of the calls above.
OtherIdle ==
  /\ cancelled = FALSE
  /\ PriorityIdle
  /\ AgentIdle
  /\ LimiterIdle
  /\ ApplyIdle

ResolveIdle ==
  /\ issues = <<>>
  /\ options = DefaultOptions
  /\ jobResults = <<>>
  /\ strategy = "merge"
  /\ resolved = <<>>
  /\ rpc = "idle"

InitShapes(maxJobs, shapes) ==
  /\ ResolveIdle
  /\ OtherIdle
  /\ \E n \in 1..maxJobs :
       \E sh \in [1..n -> shapes] :
         jobs = [i \in 1..n |-> createJob(sh[i][1], sh[i][2], sh[i][3])]
  /\ maxConcurrency \in 1..MaxConcurrencyBound
  /\ jobQueue = <<>>
  /\ processing = <<>>
  /\ promise = [j \in JobIds |-> "none"]
  /\ orphaned = 0
  /\ results = <<>>
  /\ completedCount = 0
  /\ statistics = [completedJobs |-> 0, failedJobs |-> 0]
  /\ dispatched = [j \in JobIds |-> 0]
  /\ pc = "start"

InitBatch(maxJobs) == InitShapes(maxJobs, JobShapes)

Init == InitBatch(MaxJobs)

(***************************************************************************)
(* executeJobs, entry: the queue is the dependency order of the batch.     *)
(***************************************************************************)
ExecuteJobsStart ==
  /\ UNCHANGED <<resolveVars, otherVars>>
  /\ pc = "start"
  /\ jobQueue' = resolveDependencies(jobs)
  /\ pc' = "loop"
  /\ UNCHANGED <<jobs, maxConcurrency, processing, promise, orphaned, results,
                 completedCount, statistics, dispatched>>

(***************************************************************************)
(* Inner loop, dependencies met: executeJob(job) is called, which marks    *)
(* the job processing and starts the worker call raced with the timeout.   *)
(***************************************************************************)
Dispatch ==
  /\ UNCHANGED <<resolveVars, otherVars>>
  /\ pc = "loop"
  /\ InnerLoopCond
  /\ LET j == Head(jobQueue) IN
       /\ dependenciesMet(jobs[j], results)
       /\ jobQueue' = Tail(jobQueue)
       /\ jobs' = [jobs EXCEPT ![j].status = "processing"]
       /\ processing' = Append(Remove(processing, j), j)
       /\ promise' = [promise EXCEPT ![j] = "pending"]
       /\ dispatched' = [dispatched EXCEPT ![j] = @ + 1]
  /\ UNCHANGED <<maxConcurrency, orphaned, results, completedCount, statistics, pc>>

(***************************************************************************)
(* Inner loop, dependencies not met: the job goes to the back of the queue *)
(* and the coordinator sleeps 100 ms.                                      *)
(***************************************************************************)
Requeue ==
  /\ UNCHANGED <<resolveVars, otherVars>>
  /\ pc = "loop"
  /\ InnerLoopCond
  /\ LET j == Head(jobQueue) IN
       /\ ~dependenciesMet(jobs[j], results)
       /\ jobQueue' = Append(Tail(jobQueue), j)
  /\ pc' = "sleep"
  /\ UNCHANGED <<jobs, maxConcurrency, processing, promise, orphaned, results,
                 completedCount, statistics, dispatched>>

\* sleep(100) resolves: back to the inner loop test.
Wake ==
  /\ UNCHANGED <<resolveVars, otherVars>>
  /\ pc = "sleep"
  /\ pc' = "loop"
  /\ UNCHANGED <<jobs, maxConcurrency, jobQueue, processing, promise, orphaned,
                 results, completedCount, statistics, dispatched>>

\* The inner loop is over and jobs are in flight: await Promise.race(...).
AwaitRace ==
  /\ UNCHANGED <<resolveVars, otherVars>>
  /\ pc = "loop"
  /\ ~InnerLoopCond
  /\ Len(processing) > 0
  /\ pc' = "race"
  /\ UNCHANGED <<jobs, maxConcurrency, jobQueue, processing, promise, orphaned,
                 results, completedCount, statistics, dispatched>>

(***************************************************************************)
(* Events that settle an executeJob promise.  They run only while the      *)
(* coordinator is suspended; while it awaits the race, the first           *)
(* settlement resumes it before any other callback runs.                   *)
(***************************************************************************)
CanSettle(j) ==
  /\ pc \in {"sleep", "race"}
  /\ promise[j] = "pending"
  /\ pc = "race" => \A k \in JobIds : ~Settled(k)

\* agent.remediateIssues resolves first.
WorkerResolve(j) ==
  /\ UNCHANGED <<resolveVars, otherVars>>
  /\ CanSettle(j)
  /\ promise' = [promise EXCEPT ![j] = "fulfilled"]
  /\ UNCHANGED <<jobs, maxConcurrency, jobQueue, processing, orphaned, results,
                 completedCount, statistics, dispatched, pc>>

\* agent.remediateIssues rejects first.
WorkerReject(j) ==
  /\ UNCHANGED <<resolveVars, otherVars>>
  /\ CanSettle(j)
  /\ promise' = [promise EXCEPT ![j] = "rejected"]
  /\ UNCHANGED <<jobs, maxConcurrency, jobQueue, processing, orphaned, results,
                 completedCount, statistics, dispatched, pc>>

\* Variant whose timer never rejects: the race waits for the worker alone.
Timeout_neverRejects(j) ==
  /\ UNCHANGED <<resolveVars, otherVars>>
  /\ CanSettle(j)
  /\ UNCHANGED schedVars

\* createTimeoutPromise rejects first: the worker call is not cancelled.
\* Abandoned calls are counted up to MaxOrphans.
Timeout(j) ==
  /\ UNCHANGED <<resolveVars, otherVars>>
  /\ CanSettle(j)
  /\ promise' = [promise EXCEPT ![j] = "rejected"]
  /\ orphaned' = IF orphaned < MaxOrphans THEN orphaned + 1 ELSE orphaned
  /\ UNCHANGED <<jobs, maxConcurrency, jobQueue, processing, results,
                 completedCount, statistics, dispatched, pc>>

\* Variant in which the late response is recorded as a result of a job.
OrphanSettle_recordsResult ==
  /\ UNCHANGED <<resolveVars, otherVars>>
  /\ pc \in {"sleep", "race", "done"}
  /\ orphaned > 0
  /\ pc = "race" => \A k \in JobIds : ~Settled(k)
  /\ orphaned' = orphaned - 1
  /\ \E j \in JobIds :
       /\ dispatched[j] > 0
       /\ results' = Append(results, JobResult(j, "success", jobs[j].type,
                                               AgentRemediations(jobs[j])))
  /\ UNCHANGED <<jobs, maxConcurrency, jobQueue, processing, promise,
                 completedCount, statistics, dispatched, pc>>

\* A worker call whose job already timed out settles, during the run or
\* after executeJobs returned; nobody listens.
OrphanSettle ==
  /\ UNCHANGED <<resolveVars, otherVars>>
  /\ pc \in {"sleep", "race", "done"}
  /\ orphaned > 0
  /\ pc = "race" => \A k \in JobIds : ~Settled(k)
  /\ orphaned' = orphaned - 1
  /\ UNCHANGED <<jobs, maxConcurrency, jobQueue, processing, promise, results,
                 completedCount, statistics, dispatched, pc>>

(***************************************************************************)
(* The race resolved: remove the job from processing and handle it.        *)
(***************************************************************************)
HandleSuccess ==
  /\ UNCHANGED <<resolveVars, otherVars>>
  /\ pc = "race"
  /\ \E k \in JobIds : Settled(k)
  /\ LET j == RaceWinner IN
       /\ promise[j] = "fulfilled"
       /\ processing' = Remove(processing, j)
       /\ promise' = [promise EXCEPT ![j] = "none"]
       /\ completedCount' = completedCount + 1
       /\ statistics' = [statistics EXCEPT !.completedJobs = @ + 1]
       /\ results' = Append(results, JobResult(j, "success", jobs[j].type,
                                               AgentRemediations(jobs[j])))
  /\ pc' = "loop"
  /\ UNCHANGED <<jobs, maxConcurrency, jobQueue, orphaned, dispatched>>

\* Variant whose retry test lets a job with attempts = maxAttempts retry.
HandleRetry_oneMoreRetry ==
  /\ UNCHANGED <<resolveVars, otherVars>>
  /\ pc = "race"
  /\ \E k \in JobIds : Settled(k)
  /\ LET j == RaceWinner IN
       /\ promise[j] = "rejected"
       /\ jobs[j].attempts <= jobs[j].maxAttempts
       /\ processing' = Remove(processing, j)
       /\ promise' = [promise EXCEPT ![j] = "none"]
       /\ completedCount' = completedCount + 1
       /\ statistics' = [statistics EXCEPT !.failedJobs = @ + 1]
       /\ jobs' = [jobs EXCEPT ![j].attempts = @ + 1, ![j].status = "retrying"]
       /\ jobQueue' = <<j>> \o jobQueue
  /\ pc' = "loop"
  /\ UNCHANGED <<maxConcurrency, orphaned, results, dispatched>>

HandleRetry ==
  /\ UNCHANGED <<resolveVars, otherVars>>
  /\ pc = "race"
  /\ \E k \in JobIds : Settled(k)
  /\ LET j == RaceWinner IN
       /\ promise[j] = "rejected"
       /\ jobs[j].attempts < jobs[j].maxAttempts
       /\ processing' = Remove(processing, j)
       /\ promise' = [promise EXCEPT ![j] = "none"]
       /\ completedCount' = completedCount + 1
       /\ statistics' = [statistics EXCEPT !.failedJobs = @ + 1]
       /\ jobs' = [jobs EXCEPT ![j].attempts = @ + 1, ![j].status = "retrying"]
       /\ jobQueue' = <<j>> \o jobQueue
  /\ pc' = "loop"
  /\ UNCHANGED <<maxConcurrency, orphaned, results, dispatched>>

\* Variant in which a job that used up its attempts takes the queue with it.
HandleFailure_abortsBatch ==
  /\ UNCHANGED <<resolveVars, otherVars>>
  /\ pc = "race"
  /\ \E k \in JobIds : Settled(k)
  /\ LET j == RaceWinner IN
       /\ promise[j] = "rejected"
       /\ ~(jobs[j].attempts < jobs[j].maxAttempts)
       /\ processing' = Remove(processing, j)
       /\ promise' = [promise EXCEPT ![j] = "none"]
       /\ completedCount' = completedCount + 1
       /\ statistics' = [statistics EXCEPT !.failedJobs = @ + 1]
       /\ results' = Append(results, JobResult(j, "failed", "undefined", <<>>))
       /\ jobQueue' = <<>>
  /\ pc' = "loop"
  /\ UNCHANGED <<jobs, maxConcurrency, orphaned, dispatched>>

HandleFailure ==
  /\ UNCHANGED <<resolveVars, otherVars>>
  /\ pc = "race"
  /\ \E k \in JobIds : Settled(k)
  /\ LET j == RaceWinner IN
       /\ promise[j] = "rejected"
       /\ ~(jobs[j].attempts < jobs[j].maxAttempts)
       /\ processing' = Remove(processing, j)
       /\ promise' = [promise EXCEPT ![j] = "none"]
       /\ completedCount' = completedCount + 1
       /\ statistics' = [statistics EXCEPT !.failedJobs = @ + 1]
       /\ results' = Append(results, JobResult(j, "failed", "undefined", <<>>))
  /\ pc' = "loop"
  /\ UNCHANGED <<jobs, maxConcurrency, jobQueue, orphaned, dispatched>>

\* Queue empty and nothing in flight: executeJobs returns results.
Return ==
  /\ UNCHANGED <<resolveVars, otherVars>>
  /\ pc = "loop"
  /\ Len(jobQueue) = 0
  /\ Len(processing) = 0
  /\ pc' = "done"
  /\ UNCHANGED <<jobs, maxConcurrency, jobQueue, processing, promise, orphaned,
                 results, completedCount, statistics, dispatched>>

Next ==
  \/ ExecuteJobsStart
  \/ Dispatch
  \/ Requeue
  \/ Wake
  \/ AwaitRace
  \/ \E j \in JobIds : WorkerResolve(j)
  \/ \E j \in JobIds : WorkerReject(j)
  \/ \E j \in JobIds : Timeout(j)
  \/ OrphanSettle
  \/ HandleSuccess
  \/ HandleRetry
  \/ HandleFailure
  \/ Return

Spec == Init /\ [][Next]_vars

(***************************************************************************)
(* Scheduling of the event loop: the coordinator's continuations run when  *)
(* they are ready, every sleep timer fires, and the timer of               *)
(* createTimeoutPromise fires: a pending executeJob promise is rejected by *)
(* the timeout, at the latest, at a moment the coordinator is suspended.   *)
(* No worker call needs to settle, abandoned or not.                       *)
(* The runs of SpecFair are those of batches of up to MaxFairJobs jobs.    *)
(***************************************************************************)
Settle(j) ==
  /\ j \in JobIds
  /\ Timeout(j)

Fairness ==
  /\ WF_vars(ExecuteJobsStart)
  /\ WF_vars(Dispatch)
  /\ WF_vars(Requeue)
  /\ WF_vars(Wake)
  /\ WF_vars(AwaitRace)
  /\ WF_vars(HandleSuccess)
  /\ WF_vars(HandleRetry)
  /\ WF_vars(HandleFailure)
  /\ WF_vars(Return)
  /\ \A j \in 1..MaxJobs : SF_vars(Settle(j))

InitFair == InitBatch(MaxFairJobs)

SpecFair == InitFair /\ [][Next]_vars /\ Fairness

TypeOK ==
  /\ pc \in {"start", "loop", "sleep", "race", "done"}
  /\ Len(processing) <= maxConcurrency

SchedIdle ==
  /\ jobs = <<>>
  /\ maxConcurrency = 1
  /\ jobQueue = <<>>
  /\ processing = <<>>
  /\ promise = <<>>
  /\ orphaned = 0
  /\ results = <<>>
  /\ completedCount = 0
  /\ statistics = [completedJobs |-> 0, failedJobs |-> 0]
  /\ dispatched = <<>>
  /\ pc = "idle"

InitResolve ==
  /\ SchedIdle
  /\ OtherIdle
  /\ issues = <<>>
  /\ options = DefaultOptions
  /\ \E n \in 1..MaxResults :
       \E sh \in [1..n -> JobResultShapes] :
         jobResults = [i \in 1..n |->
                         JobResult(i, sh[i][1],
                                   IF sh[i][1] = "success" THEN "1.1.1" ELSE "undefined",
                                   sh[i][2])]
  /\ strategy \in Strategies
  /\ resolved = <<>>
  /\ rpc = "results"

\* processRemediations: resolvedResults = await this.resolveConflicts(...)
ResolveConflicts ==
  /\ rpc = "results"
  /\ resolved' = resolveConflicts(jobResults, SourceLines, strategy)
  /\ rpc' = "resolved"
  /\ UNCHANGED <<issues, options, jobResults, strategy>>
  /\ UNCHANGED <<schedVars, otherVars>>

\* processRemediations: await this.validateResults(resolvedResults, sourceHtml)
ValidateResults ==
  /\ rpc = "resolved"
  /\ \E jsdomThrows \in BOOLEAN :
       resolved' = validateResults(resolved, SourceLines, jsdomThrows)
  /\ rpc' = "validated"
  /\ UNCHANGED <<issues, options, jobResults, strategy>>
  /\ UNCHANGED <<schedVars, otherVars>>

NextResolve ==
  \/ ResolveConflicts
  \/ ValidateResults

SpecResolve == InitResolve /\ [][NextResolve]_vars

(***************************************************************************)
(* processRemediations from the issue list on (SpecProcess).               *)
(*                                                                         *)
(* An issue is [criterion, type]; type "" stands for an issue without a    *)
(* type field.  The optional fields affectedElements, description and      *)
(* suggestion are absent.                                                  *)
(***************************************************************************)
Issue(criterion, type) == [criterion |-> criterion, type |-> type]

IssueShapes ==
  { Issue("3.1.1", "error"), Issue("1.1.1", "error"),
    Issue("1.1.1", "warning"), Issue("3.1.1", "") }

\* The first three characters of a criterion (for String.prototype.startsWith).
CriterionPrefix(criterion) ==
  CASE criterion \in {"1.1.1"} -> "1.1"
    [] criterion \in {"1.3.1"} -> "1.3"
    [] criterion \in {"1.4.3"} -> "1.4"
    [] criterion \in {"2.1.1"} -> "2.1"
    [] criterion \in {"2.4.2", "2.4.4"} -> "2.4"
    [] criterion \in {"3.1.1"} -> "3.1"
    [] criterion \in {"3.3.2"} -> "3.3"
    [] criterion \in {"4.1.2"} -> "4.1"
    [] OTHER -> ""

\* priorityMap[issue.type]; a type that is no key gives undefined, which is
\* falsy like the 0 of success.
priorityMap(type) ==
  CASE type = "error" -> 3
    [] type = "warning" -> 2
    [] type = "info" -> 1
    [] type = "success" -> 0
    [] OTHER -> 0

\* issue.affectedElements, 0 (falsy) for an issue without the field.
AffectedElements(issue) ==
  IF "affectedElements" \in DOMAIN issue THEN issue.affectedElements ELSE 0

\* priorityMap[issue.type] || 1, plus the boosts for critical criteria and
\* for more than 5 affected elements, capped at 5.
calculatePriority(issue) ==
  LET base == IF priorityMap(issue.type) # 0 THEN priorityMap(issue.type) ELSE 1
      boost == IF issue.criterion \in {"1.1.1", "1.3.1", "2.1.1", "2.4.2", "3.3.2", "4.1.2"}
               THEN 1 ELSE 0
      many == IF AffectedElements(issue) # 0 /\ AffectedElements(issue) > 5
              THEN 1 ELSE 0
      priority == base + boost + many
  IN IF priority < 5 THEN priority ELSE 5

\* complexityMap[issue.criterion] || 2
estimateComplexity(issue) ==
  CASE issue.criterion \in {"1.1.1", "2.4.4"} -> 2
    [] issue.criterion \in {"1.4.3", "3.3.2"} -> 3
    [] issue.criterion \in {"1.3.1", "2.1.1"} -> 4
    [] issue.criterion = "4.1.2" -> 5
    [] OTHER -> 2

\* What one otherIssue contributes to the dependencies of issue.
DependenciesFrom(issue, otherIssue) ==
  (IF CriterionPrefix(issue.criterion) = "1.4" /\ CriterionPrefix(otherIssue.criterion) = "1.3"
   THEN <<otherIssue.criterion>> ELSE <<>>)
  \o (IF issue.criterion # "3.1.1" /\ otherIssue.criterion = "3.1.1"
      THEN <<otherIssue.criterion>> ELSE <<>>)
  \o (IF CriterionPrefix(issue.criterion) = "3.3" /\ otherIssue.criterion = "3.3.2"
      THEN <<otherIssue.criterion>> ELSE <<>>)

\* allIssues.forEach from index k on; i is the index of issue itself.
RECURSIVE findDependenciesFrom(_, _, _)
findDependenciesFrom(allIssues, i, k) ==
  IF k > Len(allIssues) THEN <<>>
  ELSE (IF k = i THEN <<>> ELSE DependenciesFrom(allIssues[i], allIssues[k]))
       \o findDependenciesFrom(allIssues, i, k + 1)

findDependencies(allIssues, i) == findDependenciesFrom(allIssues, i, 1)

\* An entry of processedIssues.  An issue has no issues field (0) and a
\* group has neither criterion ("") nor dependencies (<<>>).
Processed(type, criterion, issueCount, priority, estimatedComplexity, dependencies) ==
  [type |-> type, criterion |-> criterion, issues |-> issueCount,
   priority |-> priority, estimatedComplexity |-> estimatedComplexity,
   dependencies |-> dependencies]

\* Keys of the grouped object in insertion order: issue.criterion || issue.type || 'unknown'.
GroupKey(issue) ==
  IF issue.criterion # "" THEN issue.criterion
  ELSE IF issue.type # "" THEN issue.type ELSE "unknown"

RECURSIVE GroupKeys(_, _)
GroupKeys(is, seen) ==
  IF is = <<>> THEN <<>>
  ELSE IF GroupKey(Head(is)) \in seen THEN GroupKeys(Tail(is), seen)
  ELSE <<GroupKey(Head(is))>> \o GroupKeys(Tail(is), seen \cup {GroupKey(Head(is))})

RECURSIVE MaxPriority(_)
MaxPriority(ps) ==
  IF Len(ps) = 1 THEN ps[1].priority
  ELSE LET m == MaxPriority(Tail(ps))
       IN IF ps[1].priority > m THEN ps[1].priority ELSE m

RECURSIVE SumComplexity(_)
SumComplexity(ps) ==
  IF ps = <<>> THEN 0 ELSE Head(ps).estimatedComplexity + SumComplexity(Tail(ps))

prepareIssues(is, opts) ==
  LET mapped == [i \in DOMAIN is |->
                   Processed(is[i].type, is[i].criterion, 0, calculatePriority(is[i]),
                             estimateComplexity(is[i]), findDependencies(is, i))]
      keys == GroupKeys(is, {})
      grouped == [k \in DOMAIN keys |->
                    LET typeIssues == SelectSeq(mapped, LAMBDA p : GroupKey(p) = keys[k])
                    IN Processed(keys[k], "", Len(typeIssues), MaxPriority(typeIssues),
                                 SumComplexity(typeIssues), <<>>)]
      processedIssues == IF opts.groupByType THEN grouped ELSE mapped
  IN IF opts.prioritize
     THEN \* higher priority first, lower complexity first for the same priority
          StableSort(processedIssues,
                     [i \in DOMAIN processedIssues |->
                        processedIssues[i].estimatedComplexity
                          - 100 * processedIssues[i].priority])
     ELSE processedIssues

createJobs(processedIssues) ==
  [i \in DOMAIN processedIssues |->
     LET issueGroup == processedIssues[i]
     IN createJob(IF issueGroup.type # "" THEN issueGroup.type
                  ELSE IF issueGroup.criterion # "" THEN issueGroup.criterion
                  ELSE "unknown",
                  issueGroup.dependencies,
                  IF issueGroup.issues # 0 THEN issueGroup.issues ELSE 1)]

InitProcess ==
  /\ OtherIdle
  /\ \E n \in 0..MaxIssues : issues \in [1..n -> IssueShapes]
  /\ options \in [groupByType : BOOLEAN, prioritize : BOOLEAN]
  /\ jobResults = <<>>
  /\ strategy = "merge"
  /\ resolved = <<>>
  /\ rpc = "called"
  /\ jobs = <<>>
  /\ maxConcurrency \in 1..MaxConcurrencyBound
  /\ jobQueue = <<>>
  /\ processing = <<>>
  /\ promise = <<>>
  /\ orphaned = 0
  /\ results = <<>>
  /\ completedCount = 0
  /\ statistics = [completedJobs |-> 0, failedJobs |-> 0]
  /\ dispatched = <<>>
  /\ pc = "idle"

\* processRemediations up to the call of executeJobs.
PrepareAndCreateJobs ==
  /\ rpc = "called"
  /\ jobs' = createJobs(prepareIssues(issues, options))
  /\ statistics' = [completedJobs |-> 0, failedJobs |-> 0]
  /\ promise' = [j \in DOMAIN jobs' |-> "none"]
  /\ dispatched' = [j \in DOMAIN jobs' |-> 0]
  /\ pc' = "start"
  /\ rpc' = "executing"
  /\ UNCHANGED <<maxConcurrency, jobQueue, processing, orphaned, results, completedCount>>
  /\ UNCHANGED <<issues, options, jobResults, strategy, resolved>>
  /\ UNCHANGED otherVars

\* const results = await this.executeJobs(jobs, progressCallback)
ExecuteJobsReturned ==
  /\ rpc = "executing"
  /\ pc = "done"
  /\ jobResults' = results
  /\ rpc' = "results"
  /\ UNCHANGED <<issues, options, strategy, resolved>>
  /\ UNCHANGED <<schedVars, otherVars>>

\* The statistics are completed and the result object is returned.
ReturnResult ==
  /\ rpc = "validated"
  /\ rpc' = "returned"
  /\ UNCHANGED <<issues, options, jobResults, strategy, resolved>>
  /\ UNCHANGED <<schedVars, otherVars>>

NextProcess ==
  \/ PrepareAndCreateJobs
  \/ Next
  \/ ExecuteJobsReturned
  \/ ResolveConflicts
  \/ ValidateResults
  \/ ReturnResult

FairnessProcess ==
  /\ Fairness
  /\ \A j \in 1..MaxIssues : SF_vars(Settle(j))
  /\ WF_vars(PrepareAndCreateJobs)
  /\ WF_vars(ExecuteJobsReturned)
  /\ WF_vars(ResolveConflicts)
  /\ WF_vars(ValidateResults)
  /\ WF_vars(ReturnResult)

SpecProcess == InitProcess /\ [][NextProcess]_vars /\ FairnessProcess

(***************************************************************************)
(* SpecAgent: one call of AIRemediationAgent.processIssueType, for         *)
(* config.retries in 1..MaxRetries and a rate limiter that other calls of  *)
(* the agent have used before.  A rejected call ends in "thrown", whether  *)
(* by the Error of the last line or by the TypeError that reading          *)
(* lastError.message gives when no attempt reached the catch block.        *)
(* The call is the one remediateIssues makes for the issues of a job, and  *)
(* the run ends with the job result executeJob returns for it.             *)
(***************************************************************************)
maxRequests == 60

\* The issues of the job (originalIssues) and their group key (issueType).
AgentIssues == << [criterion |-> "1.1.1", type |-> "error"] >>

AgentIssueType == "1.1.1"

\* The change objects a response can hold: lineNumber 0 is not a positive
\* integer, hasCodes tells whether beforeCode and afterCode are there as
\* strings, confidence 0 stands for a missing one.
ResponseChanges ==
  [lineNumber : {0, 1}, hasCodes : BOOLEAN, confidence : {0, 48}]

\* The responses of callLLMAPI: text that is not JSON, JSON that is not an
\* array, and arrays of up to one change object.
Responses ==
  { [kind |-> "text", changes |-> <<>>], [kind |-> "object", changes |-> <<>>] }
    \cup { [kind |-> "array", changes |-> cs] :
             cs \in {<<>>} \cup { <<c>> : c \in ResponseChanges } }

validateChange(change) ==
  /\ change.hasCodes
  /\ change.lineNumber >= 1

\* JSON.parse, Array.isArray and validateChange all pass; otherwise the
\* catch block of parseRemediationResponse runs.
Parses(response) ==
  /\ response.kind = "array"
  /\ \A i \in DOMAIN response.changes : validateChange(response.changes[i])

parseRemediationResponse(response, originalIssues, issueType) ==
  IF Parses(response)
  THEN [i \in DOMAIN response.changes |->
          LET change == response.changes[i]
          IN Remediation("success", change.lineNumber,
                         BeforeCodeFor(change.lineNumber, TRUE),
                         AfterCodeFor(change.lineNumber, issueType),
                         IF change.confidence # 0 THEN change.confidence ELSE 80,
                         issueType)]
  ELSE [i \in DOMAIN originalIssues |-> FailedPlaceholder(issueType)]

InitAgent ==
  /\ SchedIdle
  /\ ResolveIdle
  /\ cancelled = FALSE
  /\ PriorityIdle
  /\ LimiterIdle
  /\ ApplyIdle
  /\ retries \in 1..MaxRetries
  /\ attempt = 1
  /\ requests \in 0..maxRequests
  /\ llmCalls = 0
  /\ apc = "loop"
  /\ llmResponse = None
  /\ agentResult = None

AgentFrame ==
  /\ UNCHANGED <<cancelled, priorityVars, limiterVars, applyVars, retries>>
  /\ UNCHANGED <<schedVars, resolveVars>>

\* canMakeRequest drops the entries older than the window (current of them
\* remain), finds maxRequests or more and returns false: sleep(1000) starts.
RateLimitDenied ==
  /\ apc = "loop"
  /\ attempt <= retries
  /\ \E current \in 0..requests :
       /\ current >= maxRequests
       /\ requests' = current
  /\ apc' = "wait"
  /\ UNCHANGED <<attempt, llmCalls>>
  /\ UNCHANGED <<llmResponse, agentResult>>
  /\ AgentFrame

\* The sleep of the denied call is over: continue, so attempt++ runs.
RateLimitWaited ==
  /\ apc = "wait"
  /\ attempt' = attempt + 1
  /\ apc' = "loop"
  /\ UNCHANGED <<requests, llmCalls>>
  /\ UNCHANGED <<llmResponse, agentResult>>
  /\ AgentFrame

\* canMakeRequest counts the request and returns true: callLLMAPI is called.
CallLLMAPI ==
  /\ apc = "loop"
  /\ attempt <= retries
  /\ \E current \in 0..requests :
       /\ current < maxRequests
       /\ requests' = current + 1
  /\ llmCalls' = llmCalls + 1
  /\ apc' = "llm"
  /\ UNCHANGED attempt
  /\ UNCHANGED <<llmResponse, agentResult>>
  /\ AgentFrame

\* The response arrives; parseRemediationResponse catches its own errors,
\* so processIssueType returns what it returns.
LLMReturns ==
  /\ apc = "llm"
  /\ llmResponse' \in Responses
  /\ apc' = "returned"
  /\ UNCHANGED <<attempt, requests, llmCalls, agentResult>>
  /\ AgentFrame

\* callLLMAPI throws: the catch block, with the backoff sleep when an
\* attempt is left, then attempt++.
LLMFails ==
  /\ apc = "llm"
  /\ apc' = IF attempt < retries THEN "backoff" ELSE "loop"
  /\ attempt' = IF attempt < retries THEN attempt ELSE attempt + 1
  /\ UNCHANGED <<requests, llmCalls>>
  /\ UNCHANGED <<llmResponse, agentResult>>
  /\ AgentFrame

BackoffOver ==
  /\ apc = "backoff"
  /\ attempt' = attempt + 1
  /\ apc' = "loop"
  /\ UNCHANGED <<requests, llmCalls>>
  /\ UNCHANGED <<llmResponse, agentResult>>
  /\ AgentFrame

\* The for loop is left: throw.
ThrowAfterAttempts ==
  /\ apc = "loop"
  /\ ~(attempt <= retries)
  /\ apc' = "thrown"
  /\ UNCHANGED <<attempt, requests, llmCalls>>
  /\ UNCHANGED <<llmResponse, agentResult>>
  /\ AgentFrame

\* remediateIssues takes the settled processIssueType promise (allSettled):
\* the parsed remediations of a fulfilled one, a failed placeholder per
\* issue for a rejected one.  It resolves either way, and executeJob
\* returns its job result with status 'success'.
ExecuteJobReturns ==
  /\ apc \in {"returned", "thrown"}
  /\ agentResult' =
       JobResult(1, "success", AgentIssueType,
                 IF apc = "returned"
                 THEN parseRemediationResponse(llmResponse, AgentIssues, AgentIssueType)
                 ELSE [i \in DOMAIN AgentIssues |-> FailedPlaceholder(AgentIssueType)])
  /\ apc' = "settled"
  /\ UNCHANGED <<attempt, requests, llmCalls, llmResponse>>
  /\ AgentFrame

NextAgent ==
  \/ RateLimitDenied
  \/ RateLimitWaited
  \/ CallLLMAPI
  \/ LLMReturns
  \/ LLMFails
  \/ BackoffOver
  \/ ThrowAfterAttempts
  \/ ExecuteJobReturns

SpecAgent == InitAgent /\ [][NextAgent]_vars

(***************************************************************************)
(* SpecLimiter: the object createRateLimiter returns, called at the        *)
(* instants of Instants (milliseconds) in increasing order, any number of  *)
(* times at each.  The window keeps its length of the source; the limit is *)
(* LimiterMaxRequests.                                                     *)
(***************************************************************************)
windowMs == 60000

Instants == {0, 30000, 59999, 60000, 60001, 90000, 120000, 120001}

\* Math.floor(now / windowMs) * windowMs
CurrentMinute(t) == (t \div windowMs) * windowMs

\* "Clean old requests": the entries with timestamp < windowStart go.
CleanOld(reqs, t) ==
  [k \in {ts \in DOMAIN reqs : ~(ts < t - windowMs)} |-> reqs[k]]

\* Array.from(requests.values()).reduce((sum, count) => sum + count, 0)
CurrentRequests(reqs) == SumOver(DOMAIN reqs, reqs)

\* canMakeRequest at time t on the map reqs: the answer and the map left.
canMakeRequest(reqs, t, limit) ==
  LET kept == CleanOld(reqs, t)
      currentMinute == CurrentMinute(t)
  IN IF CurrentRequests(kept) >= limit
     THEN [answer |-> FALSE, requests |-> kept]
     ELSE [answer |-> TRUE,
           requests |-> [k \in DOMAIN kept \cup {currentMinute} |->
                           IF k = currentMinute
                           THEN (IF k \in DOMAIN kept THEN kept[k] ELSE 0) + 1
                           ELSE kept[k]]]

InitLimiter ==
  /\ SchedIdle
  /\ ResolveIdle
  /\ cancelled = FALSE
  /\ PriorityIdle
  /\ AgentIdle
  /\ ApplyIdle
  /\ now = 0
  /\ limiter = <<>>
  /\ admitted = [t \in Instants |-> 0]

LimiterFrame ==
  /\ UNCHANGED <<cancelled, priorityVars, agentVars, applyVars>>
  /\ UNCHANGED <<schedVars, resolveVars>>

\* One call of canMakeRequest at the present instant.
CanMakeRequest ==
  /\ LET call == canMakeRequest(limiter, now, LimiterMaxRequests) IN
       /\ limiter' = call.requests
       /\ admitted' = IF call.answer
                      THEN [admitted EXCEPT ![now] = @ + 1]
                      ELSE admitted
  /\ UNCHANGED now
  /\ LimiterFrame

\* Time goes on to a later instant.
TimePasses ==
  /\ \E t \in Instants : t > now /\ now' = t
  /\ UNCHANGED <<limiter, admitted>>
  /\ LimiterFrame

NextLimiter ==
  \/ CanMakeRequest
  \/ TimePasses

SpecLimiter == InitLimiter /\ [][NextLimiter]_vars

(***************************************************************************)
(* applyRemediations.  A string is the sequence of its tokens, the line    *)
(* feed being the token "\n".                                              *)
(***************************************************************************)
\* String.prototype.split('\n')
RECURSIVE Split(_)
Split(str) ==
  IF \E i \in DOMAIN str : str[i] = "\n"
  THEN LET first == CHOOSE i \in DOMAIN str :
                      /\ str[i] = "\n"
                      /\ \A k \in 1..(i - 1) : str[k] # "\n"
       IN <<SubSeq(str, 1, first - 1)>> \o Split(SubSeq(str, first + 1, Len(str)))
  ELSE <<str>>

\* Array.prototype.join('\n')
RECURSIVE Join(_)
Join(lines) ==
  IF lines = <<>> THEN <<>>
  ELSE IF Len(lines) = 1 THEN lines[1]
  ELSE lines[1] \o <<"\n">> \o Join(Tail(lines))

\* sortedRemediations.forEach from index k on.
RECURSIVE ApplyEach(_, _, _)
ApplyEach(sortedRemediations, k, acc) ==
  IF k > Len(sortedRemediations) THEN acc
  ELSE LET remediation == sortedRemediations[k]
       IN ApplyEach(sortedRemediations, k + 1,
            IF remediation.lineNumber \in DOMAIN acc.lines
            THEN [acc EXCEPT !.lines[remediation.lineNumber] = remediation.afterCode,
                             !.appliedCount = @ + 1]
            ELSE [acc EXCEPT !.errors = Append(@, remediation.lineNumber)])

applyRemediations(sourceHtml, rems) ==
  LET lines == Split(sourceHtml)
      successful == SelectSeq(rems, LAMBDA r : r.status = "success")
      sortedRemediations ==
        StableSort(successful, [i \in DOMAIN successful |-> 0 - successful[i].lineNumber])
      out == ApplyEach(sortedRemediations, 1,
                       [lines |-> lines, appliedCount |-> 0, errors |-> <<>>])
  IN [modifiedHtml |-> Join(out.lines),
      appliedCount |-> out.appliedCount,
      errors |-> out.errors,
      totalRemediations |-> Len(sortedRemediations)]

(***************************************************************************)
(* SpecApply: applyRemediations on a source of up to two lines and a list  *)
(* of up to MaxApplied remediations of every status, with line numbers     *)
(* inside and outside the source and replacement code of one or two lines. *)
(***************************************************************************)
ApplySources == { Join(SourceLines), <<"img">>, <<>> }

ApplyShapes ==
  { Remediation(status, l, <<"other">>, afterCode, 48, "1.1.1") :
      <<status, l, afterCode>> \in
        {"success", "failed", "merged"} \X LineNumbers
          \X { <<"text">>, <<"div", "\n", "p">> } }

InitApply ==
  /\ SchedIdle
  /\ ResolveIdle
  /\ cancelled = FALSE
  /\ PriorityIdle
  /\ AgentIdle
  /\ LimiterIdle
  /\ applySource \in ApplySources
  /\ \E n \in 0..MaxApplied : applyInput \in [1..n -> ApplyShapes]
  /\ application = None

ApplyRemediations ==
  /\ application = None
  /\ application' = applyRemediations(applySource, applyInput)
  /\ UNCHANGED <<applySource, applyInput>>
  /\ UNCHANGED <<cancelled, priorityVars, agentVars, limiterVars>>
  /\ UNCHANGED <<schedVars, resolveVars>>

SpecApply == InitApply /\ [][ApplyRemediations]_vars

(***************************************************************************)
(* SpecResolveApply: SpecResolve followed by the step of POST              *)
(* /api/remediate that applies the remediations processRemediations        *)
(* returned to the source.                                                 *)
(***************************************************************************)
ApplyResolved ==
  /\ rpc = "validated"
  /\ rpc' = "applied"
  /\ applySource' = Join(SourceLines)
  /\ applyInput' = resolved
  /\ application' = applyRemediations(applySource', applyInput')
  /\ UNCHANGED <<issues, options, jobResults, strategy, resolved>>
  /\ UNCHANGED <<cancelled, priorityVars, agentVars, limiterVars>>
  /\ UNCHANGED schedVars

NextResolveApply ==
  \/ NextResolve
  \/ ApplyResolved

SpecResolveApply == InitResolve /\ [][NextResolveApply]_vars

(***************************************************************************)
(* SpecCancel: executeJobs on a batch of up to MaxFairJobs jobs, with a    *)
(* call of cancelProcessing at some moment the coordinator is suspended.   *)
(***************************************************************************)
\* cancelProcessing: this.emit('processing-cancelled'), which has no listener.
CancelProcessing ==
  /\ pc \in {"sleep", "race"}
  /\ cancelled = FALSE
  /\ cancelled' = TRUE
  /\ UNCHANGED <<priorityVars, agentVars, limiterVars, applyVars>>
  /\ UNCHANGED <<schedVars, resolveVars>>

NextCancel ==
  \/ Next
  \/ CancelProcessing

SpecCancel == InitFair /\ [][NextCancel]_vars

(***************************************************************************)
(* SpecPriority: calculatePriority applied to one issue, for every issue   *)
(* type, criteria inside and outside the critical list and up to           *)
(* MaxAffectedElements affected elements.                                  *)
(***************************************************************************)
PriorityIssues ==
  [criterion : {"1.1.1", "3.1.1", "4.1.2", ""},
   type : {"error", "warning", "info", "success", ""},
   affectedElements : 0..MaxAffectedElements]

InitPriority ==
  /\ SchedIdle
  /\ ResolveIdle
  /\ cancelled = FALSE
  /\ AgentIdle
  /\ LimiterIdle
  /\ ApplyIdle
  /\ issueArg \in PriorityIssues
  /\ priorityOut = -1

CalculatePriority ==
  /\ priorityOut = -1
  /\ priorityOut' = calculatePriority(issueArg)
  /\ UNCHANGED <<cancelled, issueArg, agentVars, limiterVars, applyVars>>
  /\ UNCHANGED <<schedVars, resolveVars>>

SpecPriority == InitPriority /\ [][CalculatePriority]_vars

(***************************************************************************)
(* SpecOrder: resolveDependencies applied to every batch of up to MaxJobs  *)
(* jobs drawn from JobShapes and from jobs that name their own type.       *)
(***************************************************************************)
OrderShapes ==
  JobShapes \cup { <<"1.1.1", <<"1.1.1">>, 1>>,
                   <<"4.1.2", <<"4.1.2", "3.1.1">>, 1>> }

InitOrder == InitShapes(MaxJobs, OrderShapes)

SpecOrder == InitOrder /\ [][ExecuteJobsStart]_vars

(***************************************************************************)
(* Vocabulary of the scheduler properties.                                 *)
(***************************************************************************)
\* Job j names the group key of job i among its dependencies.
DependsOn(j, i) ==
  \E k \in DOMAIN jobs[j].dependencies : jobs[j].dependencies[k] = jobs[i].type

RECURSIVE ReachableIn(_, _, _)
ReachableIn(j, i, n) ==
  IF n = 0 THEN FALSE
  ELSE \/ DependsOn(j, i)
       \/ \E m \in JobIds : DependsOn(j, m) /\ ReachableIn(m, i, n - 1)

Acyclic == \A j \in JobIds : ~ReachableIn(j, j, Cardinality(JobIds))

Succeeded(i) ==
  \E r \in DOMAIN results : results[r].jobId = i /\ results[r].status = "success"

Failed(i) ==
  \E r \in DOMAIN results : results[r].jobId = i /\ results[r].status = "failed"

\* The step calls executeJob(j).
DispatchOf(j) == dispatched'[j] = dispatched[j] + 1

(***************************************************************************)
(* C1: the worker calls that executeJobs/executeJob started and that have  *)
(* not settled never number more than config.maxConcurrency; a call whose  *)
(* job timed out stays counted until it settles.                           *)
(***************************************************************************)
CE_C1 == Outstanding <= maxConcurrency

DependencyFailed ==
  \E j \in Range(jobQueue) : \E i \in JobIds : DependsOn(j, i) /\ Failed(i)

CE_C3 == DependencyFailed ~> (pc = "done")

(***************************************************************************)
(* Vocabulary of the conflict resolution properties.                       *)
(***************************************************************************)
AllRemediations == CollectRemediations(jobResults)

\* Lines targeted by at least one successful patch.
TargetedLines == {r.lineNumber : r \in Range(SuccessOnly(AllRemediations))}

Candidates(lineNum) == LineGroup(AllRemediations, lineNum)

ConflictLines == {l \in TargetedLines : Len(Candidates(l)) > 1}

\* resolveConflicts has returned.
Resolved == rpc \in {"resolved", "validated"}

\* The line an entry of the resolved list stands for: its lineNumber, or,
\* for a needs_review placeholder, the line of the candidates it carries.
EntryLine(e) ==
  IF e.status = "needs_review" /\ e.options # <<>>
  THEN e.options[1].lineNumber
  ELSE e.lineNumber

EntriesFor(lineNum) == {i \in DOMAIN resolved : EntryLine(resolved[i]) = lineNum}

EntryFor(lineNum) == resolved[CHOOSE i \in EntriesFor(lineNum) : TRUE]

Listed(criterion) == IndexOf(priorityOrder, criterion) >= 0

\* The attribute token a candidate adds to the source line, "" if it adds none.
AddedAttr(r) ==
  IF \E a \in AttrTokens : r.afterCode = BaseOf(r.lineNumber) \o <<a>>
  THEN CHOOSE a \in AttrTokens : r.afterCode = BaseOf(r.lineNumber) \o <<a>>
  ELSE ""

(***************************************************************************)
(* C4: whatever the strategy, the list resolveConflicts returns holds      *)
(* exactly one entry for each line that a successful patch targets.        *)
(***************************************************************************)
T_C4 ==
  Resolved => \A l \in TargetedLines : Cardinality(EntriesFor(l)) = 1

W_C4 ==
  /\ rpc = "resolved"
  /\ ConflictLines # {}
  /\ Cardinality(TargetedLines) = 1
  /\ strategy = "priority"

(***************************************************************************)
(* C5: merge of two candidates of one line that add two different          *)
(* attributes gives one merged patch whose afterCode holds both.           *)
(***************************************************************************)
CE_C5 ==
  (rpc = "resolved" /\ strategy = "merge") =>
    \A l \in ConflictLines \cap DOMAIN SourceLines :
      LET g == Candidates(l) IN
        (/\ Len(g) = 2
         /\ AddedAttr(g[1]) # ""
         /\ AddedAttr(g[2]) # ""
         /\ AddedAttr(g[1]) # AddedAttr(g[2]))
        => /\ Cardinality(EntriesFor(l)) = 1
           /\ EntryFor(l).status = "merged"
           /\ {AddedAttr(g[1]), AddedAttr(g[2])} \subseteq Range(EntryFor(l).afterCode)

(***************************************************************************)
(* C6: priority picks, among candidates whose criteria are all in the      *)
(* precedence list, the one whose criterion comes earliest in the list.    *)
(***************************************************************************)
CE_C6 ==
  (rpc = "resolved" /\ strategy = "priority") =>
    \A l \in ConflictLines :
      LET g == Candidates(l) IN
        (\A k \in DOMAIN g : Listed(g[k].wcagCriterion)) =>
          \A k \in DOMAIN g :
            IndexOf(priorityOrder, EntryFor(l).wcagCriterion)
              <= IndexOf(priorityOrder, g[k].wcagCriterion)

(***************************************************************************)
(* C7: priority never picks a candidate with an unknown criterion when     *)
(* the line has a candidate with a listed criterion.                       *)
(***************************************************************************)
CE_C7 ==
  (rpc = "resolved" /\ strategy = "priority") =>
    \A l \in ConflictLines :
      LET g == Candidates(l) IN
        (\E k \in DOMAIN g : Listed(g[k].wcagCriterion)) =>
          Listed(EntryFor(l).wcagCriterion)

T_C9 ==
  (Resolved /\ strategy = "manual") =>
    \A l \in ConflictLines :
      /\ Cardinality({i \in DOMAIN resolved :
                        /\ resolved[i].status = "needs_review"
                        /\ resolved[i].options = Candidates(l)}) = 1
      /\ \A i \in DOMAIN resolved :
           resolved[i].status \in {"success", "merged"} =>
             /\ resolved[i].lineNumber # l
             /\ \A k \in DOMAIN Candidates(l) :
                  [resolved[i] EXCEPT !.validated = "unset", !.validationErrors = <<>>]
                    # Candidates(l)[k]

W_C9 ==
  /\ rpc = "resolved"
  /\ strategy = "manual"
  /\ ConflictLines # {}
  /\ \E i \in DOMAIN resolved : resolved[i].status = "needs_review"

(***************************************************************************)
(* C10: validateResults marks a patch validated=false when its trimmed     *)
(* beforeCode differs from the trimmed source line at its lineNumber, and  *)
(* keeps every entry of the list.                                          *)
(***************************************************************************)
Mismatches(e) ==
  /\ e.status \in {"success", "merged"}
  /\ e.lineNumber \in DOMAIN SourceLines
  /\ Trim(e.beforeCode) # Trim(SourceLines[e.lineNumber])

T_C10 ==
  [][(rpc = "resolved" /\ rpc' = "validated") =>
       /\ DOMAIN resolved' = DOMAIN resolved
       /\ \A i \in DOMAIN resolved :
            /\ [resolved'[i] EXCEPT !.validated = "unset", !.validationErrors = <<>>]
                 = resolved[i]
            /\ Mismatches(resolved[i]) => resolved'[i].validated = "false"]_vars

W_C10 ==
  /\ rpc = "validated"
  /\ \E i \in DOMAIN resolved :
       /\ Mismatches(resolved[i])
       /\ resolved[i].validated = "false"
       /\ resolved[i].validationErrors = << <<"content mismatch", resolved[i].lineNumber>> >>

(***************************************************************************)
(* C11: after validateResults, every patch whose lineNumber lies outside   *)
(* 1..number of source lines has status failed, so that no consumer that   *)
(* applies the success patches picks it up.                                *)
(***************************************************************************)
OutOfRange(e) == e.lineNumber # 0 /\ e.lineNumber \notin DOMAIN SourceLines

CE_C11 ==
  rpc = "validated" =>
    \A i \in DOMAIN resolved :
      OutOfRange(resolved[i]) => resolved[i].status = "failed"

(***************************************************************************)
(* Vocabulary of the retry properties.                                     *)
(***************************************************************************)
\* The entry of results recorded for job j.
ResultOf(j) == results[CHOOSE r \in DOMAIN results : results[r].jobId = j]

HasResult(j) == \E r \in DOMAIN results : results[r].jobId = j

\* Job j is waiting in the queue, in flight, or about to be handled.
Scheduled(j) == j \in Range(jobQueue) \/ j \in Range(processing)

(***************************************************************************)
(* C12: a job whose worker call failed on its first k-1 dispatches and     *)
(* succeeded on the k-th, k <= maxAttempts, has attempts = k once its      *)
(* successful result is recorded.                                          *)
(***************************************************************************)
CE_C12 ==
  \A j \in JobIds :
    (Succeeded(j) /\ dispatched[j] <= jobs[j].maxAttempts) =>
      jobs[j].attempts = dispatched[j]

(***************************************************************************)
(* C13: the result recorded for a job whose worker failed on every         *)
(* dispatch carries one failed placeholder per issue of the job.           *)
(***************************************************************************)
CE_C13 ==
  \A j \in JobIds :
    Failed(j) =>
      /\ Len(ResultOf(j).remediations) = jobs[j].issues
      /\ \A k \in DOMAIN ResultOf(j).remediations :
           ResultOf(j).remediations[k].status = "failed"

(***************************************************************************)
(* C14: attempts never exceeds maxAttempts, and a job whose failed result  *)
(* was recorded is neither dispatched nor put back into the queue.         *)
(***************************************************************************)
T_C14 ==
  [][\A j \in JobIds :
       /\ jobs[j].attempts <= jobs[j].maxAttempts
       /\ jobs'[j].attempts <= jobs'[j].maxAttempts
       /\ Failed(j) => (~DispatchOf(j) /\ ~Scheduled(j) /\ ~Scheduled(j)')]_vars

W_C14 ==
  /\ pc = "done"
  /\ \E j \in JobIds :
       /\ jobs[j].attempts = jobs[j].maxAttempts
       /\ \E r1, r2 \in DOMAIN results :
            /\ r1 < r2
            /\ results[r1].jobId = j
            /\ results[r1].status = "failed"

(***************************************************************************)
(* C15: in a batch whose jobs have no dependencies, whichever jobs fail on *)
(* all their attempts, executeJobs returns and has recorded a result for   *)
(* every job of the batch.                                                 *)
(***************************************************************************)
NoDependencies == \A j \in JobIds : jobs[j].dependencies = <<>>

T_C15 ==
  NoDependencies => <>(pc = "done" /\ \A j \in JobIds : HasResult(j))

W_C15 ==
  /\ pc = "done"
  /\ NoDependencies
  /\ \E j, i \in JobIds :
       /\ Failed(j)
       /\ Succeeded(i)
       /\ dispatched[i] = 1
       /\ \A k \in JobIds : HasResult(k)

(***************************************************************************)
(* C19: for a batch without dependency cycles, the order that              *)
(* resolveDependencies returns puts every job after every job whose type   *)
(* it lists in its dependencies, also when several jobs share a type.      *)
(***************************************************************************)
PositionIn(queue, j) == CHOOSE k \in DOMAIN queue : queue[k] = j

CE_C19 ==
  [][(pc = "start" /\ pc' = "loop" /\ Acyclic) =>
       \A j, i \in JobIds :
         DependsOn(j, i) =>
           /\ j \in Range(jobQueue')
           /\ i \in Range(jobQueue')
           /\ PositionIn(jobQueue', i) < PositionIn(jobQueue', j)]_vars

(***************************************************************************)
(* C20: a job whose dependencies name only keys that no job of the batch   *)
(* has is dispatched: the missing keys count as satisfied.                 *)
(***************************************************************************)
\* Every dependency of job j names a type that no job of the batch has.
OnlyMissingKeys(j) ==
  /\ jobs[j].dependencies # <<>>
  /\ \A k \in DOMAIN jobs[j].dependencies :
       \A i \in JobIds : jobs[i].type # jobs[j].dependencies[k]

CE_C20 ==
  \A j \in 1..MaxJobs :
    (j \in JobIds /\ OnlyMissingKeys(j)) ~> (j \in JobIds /\ dispatched[j] > 0)

(***************************************************************************)
(* Vocabulary of the processRemediations properties.                       *)
(***************************************************************************)
\* The criteria of the issue list.
IssueCriteria == {issues[i].criterion : i \in DOMAIN issues}

\* Some issue of criterion c has criterion d among its dependencies.
CriterionDependsOn(c, d) ==
  \E i \in DOMAIN issues :
    /\ issues[i].criterion = c
    /\ d \in Range(findDependencies(issues, i))

\* No executeJob promise was rejected so far in the run.
NoWorkerFailure ==
  /\ statistics.failedJobs = 0
  /\ orphaned = 0
  /\ \A j \in JobIds : promise[j] # "rejected"

(***************************************************************************)
(* C16: for a non-empty issue list, whatever the workers do, the call of   *)
(* processRemediations ends and the caller receives the result object.     *)
(***************************************************************************)
CE_C16 == (issues # <<>>) => <>(rpc = "returned")

(***************************************************************************)
(* C17: processRemediations on an empty issue list does not return a       *)
(* successful result: the list is rejected before any work starts.         *)
(***************************************************************************)
CE_C17 == (issues = <<>>) => (rpc # "returned")

(***************************************************************************)
(* C18: with groupByType and workers that always succeed, issues of two    *)
(* criteria of which one depends on the other give two jobs, the job of    *)
(* the dependent criterion is dispatched only after the job of the other   *)
(* criterion has a successful result, and no job is counted as failed.     *)
(***************************************************************************)
CE_C18 ==
  [][(/\ rpc = "executing"
      /\ options.groupByType
      /\ Cardinality(IssueCriteria) = 2
      /\ NoWorkerFailure) =>
       /\ Len(jobs) = 2
       /\ statistics.failedJobs = 0
       /\ \A j, i \in JobIds :
            (CriterionDependsOn(jobs[j].type, jobs[i].type) /\ DispatchOf(j))
              => Succeeded(i)]_vars

(***************************************************************************)
(* C23: a job's status changes only along pending -> processing,           *)
(* processing -> success, processing -> retrying, retrying -> processing   *)
(* and processing -> failed, and when executeJobs returns every job of the *)
(* batch has status success or failed.                                     *)
(***************************************************************************)
StatusSteps ==
  { <<"pending", "processing">>, <<"processing", "success">>,
    <<"processing", "retrying">>, <<"retrying", "processing">>,
    <<"processing", "failed">> }

CE_C23 ==
  [][\A j \in JobIds :
       /\ (jobs'[j].status # jobs[j].status)
            => (<<jobs[j].status, jobs'[j].status>> \in StatusSteps)
       /\ (pc' = "done") => (jobs'[j].status \in {"success", "failed"})]_vars

(***************************************************************************)
(* C25: when job j depends only on job i, job i depends on nothing and the *)
(* executeJob promise of i is fulfilled, then j is eventually dispatched   *)
(* and executeJobs eventually returns, for every maxConcurrency.           *)
(***************************************************************************)
ReadyDependent(j, i) ==
  /\ j \in JobIds
  /\ i \in JobIds
  /\ jobs[i].dependencies = <<>>
  /\ jobs[j].dependencies = <<jobs[i].type>>
  /\ jobs[j].type # jobs[i].type
  /\ promise[i] = "fulfilled"

CE_C25 ==
  \A j, i \in 1..MaxFairJobs :
    /\ ReadyDependent(j, i) ~> (j \in JobIds /\ dispatched[j] > 0)
    /\ ReadyDependent(j, i) ~> (pc = "done")

(***************************************************************************)
(* C29: no job is handed to executeJob more than maxAttempts times.        *)
(***************************************************************************)
CE_C29 == \A j \in JobIds : dispatched[j] <= jobs[j].maxAttempts

(***************************************************************************)
(* C30: a rejected executeJob promise (the timeout rejects every call that *)
(* did not settle in time) is handled as a failed attempt: the job leaves  *)
(* processing and is either put at the head of the queue with one more     *)
(* attempt or gets a failed result.  The wait on Promise.race always ends, *)
(* whether or not a worker responds, and a batch without dependencies      *)
(* returns.                                                                *)
(***************************************************************************)
HandlesRejected(j) ==
  /\ pc = "race"
  /\ pc' = "loop"
  /\ j \in Range(processing)
  /\ j \notin Range(processing')

CE_C27 ==
  \A j \in JobIds :
    \A k \in DOMAIN jobs[j].dependencies :
      /\ jobs[j].dependencies[k] # jobs[j].type
      /\ \E i \in JobIds \ {j} : jobs[i].type = jobs[j].dependencies[k]

(***************************************************************************)
(* C28: with groupByType, when findDependencies gives an issue the key of  *)
(* another group as a dependency, the job of the issue's group has that    *)
(* key among its dependencies.                                             *)
(***************************************************************************)
CE_C28 ==
  (options.groupByType /\ rpc = "executing") =>
    \A i \in DOMAIN issues :
      \A d \in Range(findDependencies(issues, i)) :
        (d # GroupKey(issues[i]) /\ d \in Range(GroupKeys(issues, {}))) =>
          \E j \in JobIds :
            /\ jobs[j].type = GroupKey(issues[i])
            /\ d \in Range(jobs[j].dependencies)

(***************************************************************************)
(* C26: on every batch, with dependency cycles and jobs that depend on     *)
(* their own type included, resolveDependencies returns and its result     *)
(* holds every job of the batch exactly once.                              *)
(***************************************************************************)
T_C26 ==
  (pc = "loop") =>
    /\ Len(jobQueue) = Len(jobs)
    /\ \A j \in JobIds :
         Cardinality({k \in DOMAIN jobQueue : jobQueue[k] = j}) = 1

\* The order of a batch that has a job depending on its own type and two
\* jobs depending on each other.
W_C26 ==
  /\ pc = "loop"
  /\ Len(jobQueue) >= 3
  /\ \E j \in JobIds : DependsOn(j, j)
  /\ \E j, i \in JobIds : j # i /\ DependsOn(j, i) /\ DependsOn(i, j)

(***************************************************************************)
(* C24: calculatePriority returns min(5, base + c + m), where base is 3    *)
(* for error, 2 for warning, 1 for info and 0 for success, c is 1 for a    *)
(* criterion of the critical list and m is 1 for more than 5 affected      *)
(* elements.                                                               *)
(***************************************************************************)
CE_C24 ==
  (priorityOut # -1 /\ issueArg.type \in {"error", "warning", "info", "success"}) =>
    LET base == CASE issueArg.type = "error" -> 3
                  [] issueArg.type = "warning" -> 2
                  [] issueArg.type = "info" -> 1
                  [] issueArg.type = "success" -> 0
        c == IF issueArg.criterion \in {"1.1.1", "1.3.1", "2.1.1", "2.4.2", "3.3.2", "4.1.2"}
             THEN 1 ELSE 0
        m == IF issueArg.affectedElements > 5 THEN 1 ELSE 0
    IN priorityOut = (IF base + c + m < 5 THEN base + c + m ELSE 5)

(***************************************************************************)
(* C22: once cancelProcessing was called during a run, executeJobs calls   *)
(* executeJob for no further job, so a job that was in the queue at that   *)
(* moment is never dispatched, and every job in the queue or in processing *)
(* is a job of the batch without a result.                                 *)
(***************************************************************************)
CE_C22 ==
  [][cancelled =>
       /\ \A j \in JobIds : ~DispatchOf(j)
       /\ \A j \in JobIds : Scheduled(j)' => ~HasResult(j)']_vars

(***************************************************************************)
(* C21: a denial by the rate limiter uses up no attempt: after the wait    *)
(* the limiter is asked again under the same attempt number, and           *)
(* processIssueType throws only after callLLMAPI was called config.retries *)
(* times, for every config.retries from 1 on.                              *)
(***************************************************************************)
CE_C21 ==
  [][/\ (apc = "wait" /\ apc' = "loop") => (attempt' = attempt)
     /\ (apc' = "thrown") => (llmCalls' = retries)]_vars

(***************************************************************************)
(* C32: after validateResults every patch with status success or merged    *)
(* carries a validated flag.                                               *)
(***************************************************************************)
CE_C32 ==
  (rpc = "validated") =>
    \A i \in DOMAIN resolved :
      (resolved[i].status \in {"success", "merged"}) =>
        (resolved[i].validated \in {"true", "false"})

(***************************************************************************)
(* C34: a success patch whose lineNumber is a line of the source and whose *)
(* trimmed beforeCode is the trimmed source line is marked validated=true  *)
(* by validateResults, whatever the other patches of the list are (the     *)
(* case that the HTML check of the whole document fails is left aside).    *)
(***************************************************************************)
Fits(e) ==
  /\ e.status = "success"
  /\ e.lineNumber \in DOMAIN SourceLines
  /\ Trim(e.beforeCode) = Trim(SourceLines[e.lineNumber])

CE_C34 ==
  (rpc = "validated") =>
    \A i \in DOMAIN resolved :
      (/\ Fits(resolved[i])
       /\ \A k \in DOMAIN resolved[i].validationErrors :
            resolved[i].validationErrors[k][1] # "HTML validation failed")
        => resolved[i].validated = "true"

(***************************************************************************)
(* C35: when executeJobs returns, results holds exactly one entry for      *)
(* every job of the batch, and the late response of a worker call whose    *)
(* job timed out changes neither results nor any job.                      *)
(***************************************************************************)
ResultsOf(j) == {r \in DOMAIN results : results[r].jobId = j}

LateResponse == orphaned' = orphaned - 1

T_C35 ==
  [][/\ (pc' = "done") =>
          /\ Len(results') = Len(jobs')
          /\ \A j \in JobIds :
               /\ Cardinality(ResultsOf(j)') = 1
               /\ ResultOf(j)'.status \in {"success", "failed"}
     /\ LateResponse =>
          /\ results' = results
          /\ jobs' = jobs
          /\ statistics' = statistics]_vars

\* executeJobs returned with a failed and a retried successful job while a
\* timed-out worker call is still running.
W_C35 ==
  /\ pc = "done"
  /\ orphaned > 0
  /\ \E j, i \in JobIds :
       /\ Failed(i)
       /\ Succeeded(j)
       /\ dispatched[j] > 1

(***************************************************************************)
(* C36: processing never holds more than maxConcurrency jobs, no job is    *)
(* in processing and in the queue at once, and no job is twice in the      *)
(* queue.                                                                  *)
(***************************************************************************)
T_C36 ==
  /\ Len(processing) <= maxConcurrency
  /\ Range(processing) \cap Range(jobQueue) = {}
  /\ Cardinality(Range(jobQueue)) = Len(jobQueue)
  /\ Cardinality(Range(processing)) = Len(processing)

\* processing is full, with a job on its second dispatch in it, while
\* another job waits in the queue.
W_C36 ==
  /\ Len(processing) = maxConcurrency
  /\ jobQueue # <<>>
  /\ \E j \in Range(processing) : dispatched[j] > 1

(***************************************************************************)
(* C37: when processRemediations returns, statistics.failedJobs is the     *)
(* number of jobs whose result is failed, and completedJobs + failedJobs   *)
(* is the number of jobs.                                                  *)
(***************************************************************************)
CE_C37 ==
  (rpc = "returned") =>
    /\ statistics.failedJobs = Cardinality({j \in JobIds : Failed(j)})
    /\ statistics.completedJobs + statistics.failedJobs = Len(jobs)

(***************************************************************************)
(* C38: every progress event reports completed <= total and a percentage   *)
(* in 0..100, and the event after which nothing is in flight and nothing   *)
(* is queued reports completed = total.                                    *)
(***************************************************************************)
\* Math.round(x / y * 100) for non-negative integers.
RoundedPercent(x, y) == (200 * x + y) \div (2 * y)

\* The progress object executeJobs builds after handling a settled job.
Progress ==
  [completed |-> completedCount,
   total |-> Len(jobs),
   percentage |-> RoundedPercent(completedCount, Len(jobs)),
   processing |-> Len(processing),
   queued |-> Len(jobQueue)]

\* The step handles a settled job, after which the progress event is emitted.
ProgressEmitted == pc = "race" /\ pc' = "loop"

CE_C38 ==
  [][ProgressEmitted =>
       /\ Progress'.completed <= Progress'.total
       /\ Progress'.percentage \in 0..100
       /\ (Progress'.processing = 0 /\ Progress'.queued = 0)
            => Progress'.completed = Progress'.total]_vars

(***************************************************************************)
(* C31: a job whose worker response is malformed (not JSON, not an array,  *)
(* or an array with a change that validateChange rejects) is not retried   *)
(* and ends with a failed job result.                                      *)
(***************************************************************************)
CE_C31 ==
  (apc = "settled" /\ llmResponse # None /\ ~Parses(llmResponse)) =>
    agentResult.status = "failed"

(***************************************************************************)
(* C33: in every interval of windowMs milliseconds canMakeRequest answers  *)
(* true at most maxRequests times, and a call it denies adds nothing to    *)
(* the requests the limiter counts.                                        *)
(***************************************************************************)
AdmittedFrom(t) ==
  SumOver({u \in Instants : t <= u /\ u < t + windowMs}, admitted)

Denial == now' = now /\ admitted' = admitted

CE_C33 ==
  [][/\ \A t \in Instants : AdmittedFrom(t)' <= LimiterMaxRequests
     /\ Denial => CurrentRequests(limiter') <= CurrentRequests(limiter)]_vars

(***************************************************************************)
(* C39: after resolveConflicts with the merge strategy, validateResults    *)
(* and applyRemediations, every line for which a merged patch was produced *)
(* holds the afterCode of that patch in the modified source.               *)
(***************************************************************************)
CE_C39 ==
  (rpc = "applied" /\ strategy = "merge") =>
    \A i \in DOMAIN resolved :
      (/\ resolved[i].status = "merged"
       /\ resolved[i].lineNumber \in DOMAIN SourceLines) =>
        /\ resolved[i].lineNumber \in DOMAIN Split(application.modifiedHtml)
        /\ Split(application.modifiedHtml)[resolved[i].lineNumber]
             = resolved[i].afterCode

(***************************************************************************)
(* C40: applyRemediations returns a source of as many lines as its input,  *)
(* in which a line no in-range success remediation targets is unchanged    *)
(* and a targeted line is the afterCode of a remediation targeting it; an  *)
(* out-of-range remediation is reported in errors and not counted in       *)
(* appliedCount.                                                           *)
(***************************************************************************)
Targeting(l) ==
  {i \in DOMAIN applyInput :
     applyInput[i].status = "success" /\ applyInput[i].lineNumber = l}

SuccessInput == {i \in DOMAIN applyInput : applyInput[i].status = "success"}

CE_C40 ==
  (application # None) =>
    LET before == Split(applySource)
        after == Split(application.modifiedHtml)
        inRange == {i \in SuccessInput : applyInput[i].lineNumber \in DOMAIN before}
    IN /\ Len(after) = Len(before)
       /\ \A l \in DOMAIN before :
            IF Targeting(l) = {}
            THEN after[l] = before[l]
            ELSE \E i \in Targeting(l) : after[l] = applyInput[i].afterCode
       /\ application.appliedCount = Cardinality(inRange)
       /\ Len(application.errors) = Cardinality(SuccessInput \ inRange)

====
